---- MODULE Spec2Model ----
(***************************************************************************)
(* Model of brainstorm's Trainer (training/trainer.py) and of the          *)
(* peephole LSTM layer (layers/lstm_peephole.py).                          *)
(*                                                                         *)
(* Four specifications share the module:                                   *)
(*   Spec          the Trainer: add_hook, train, hook dispatch, the two    *)
(*                 data feeding generators and the prefetch threads;       *)
(*   SpecTen       the Trainer fed by run_network from a source of ten     *)
(*                 batches;                                                *)
(*   SpecLog       Trainer._add_log applied to sequences of hook results;  *)
(*   SpecLayer     LstmPeepholeLayerImpl.setup and the peephole part of    *)
(*                 backward_pass on small integer buffers.                 *)
(***************************************************************************)
EXTENDS Integers, Sequences, FiniteSets, TLC

\* ---------------------------------------------------------------- bounds
MaxBatches == 2
MaxEpochs == 2
MaxUpdates == 10
MaxTrainCalls == 2
ScriptedUpdates == 10
MaxAddLogs == 3
MaxT == 2
MaxSize == 2

\* ------------------------------------------------------- values and logs
\* A hook result: None, a non-mapping value, or a mapping given as the
\* sequence of its (key, value) items in iteration order.
NoneV == [k |-> "none", s |-> 0, d |-> <<>>]
Sc(x) == [k |-> "scalar", s |-> x, d |-> <<>>]
Dc(items) == [k |-> "dict", s |-> 0, d |-> items]

\* A log entry: a list of values, or a nested mapping name -> entry.
LList(items) == [k |-> "list", items |-> items, sub |-> <<>>]
LDict(f) == [k |-> "dict", items |-> <<>>, sub |-> f]

NaN == -1
Loss == 1

\* A value put in front of the values of a list.
PrependVal(e, x) == LList(<<x>> \o e.items)

\* Line 172, logs[name].append(val).
AppendVal(e, x) == LList(Append(e.items, x))

RECURSIVE AddLog(_, _, _), MergeItems(_, _)

\* Trainer._add_log(name, val, logs=lg): the mapping lg after the call and
\* whether the call raised.  Python mutates lg in place, so what was
\* merged before an error stays merged.
AddLog(name, val, lg) ==
    IF val.k = "none" THEN [err |-> FALSE, logs |-> lg]
    ELSE IF val.k = "dict" THEN
        LET lg1 == IF name \in DOMAIN lg THEN lg
                   ELSE lg @@ (name :> LDict(<<>>))
            r == MergeItems(val.d, lg1[name])
        IN [err |-> r.err, logs |-> [lg1 EXCEPT ![name] = r.node]]
    ELSE
        IF name \notin DOMAIN lg
        THEN [err |-> FALSE, logs |-> lg @@ (name :> LList(<<val.s>>))]
        ELSE IF lg[name].k = "list"
        THEN [err |-> FALSE,
              logs |-> [lg EXCEPT ![name] = AppendVal(@, val.s)]]
        \* a mapping has no append: AttributeError
        ELSE [err |-> TRUE, logs |-> lg]

\* The loop "for k, v in val.items(): self._add_log(k, v, verbose,
\* logs[name], ...)" with logs[name] = node.
MergeItems(items, node) ==
    IF items = <<>> THEN [err |-> FALSE, node |-> node]
    ELSE LET kk == Head(items)[1]
             v == Head(items)[2]
             step ==
                 IF node.k = "dict"
                 THEN LET r == AddLog(kk, v, node.sub)
                      IN [err |-> r.err, node |-> LDict(r.logs)]
                 \* logs[name] is a list: a None value returns at once,
                 \* anything else indexes the list by a name: TypeError
                 ELSE IF v.k = "none"
                 THEN [err |-> FALSE, node |-> node]
                 ELSE [err |-> TRUE, node |-> node]
         IN IF step.err THEN step ELSE MergeItems(Tail(items), step.node)

\* ------------------------------------------------------------------ hooks
\* The hooks a caller may add: name, timescale, interval, the value the
\* hook returns when called and the value its StopIteration carries.
HookNames == {"u1", "u2", "e1"}

Hook(h) ==
    CASE h = "u1" -> [timescale |-> "update", interval |-> 1,
                      ret |-> NoneV, stopval |-> NoneV]
      [] h = "u2" -> [timescale |-> "update", interval |-> 2,
                      ret |-> Sc(1), stopval |-> Sc(1)]
      [] h = "e1" -> [timescale |-> "epoch", interval |-> 1,
                      ret |-> NoneV, stopval |-> NoneV]

\* What one call of a hook does: return its value, raise StopIteration
\* (with its value, if it gives one), or raise another exception.
Outcomes == {"ret", "stop", "raise"}

\* A test that looks at the timescale only.
ShouldCallAnyCount(h, timescale, count) == Hook(h).timescale = timescale

\* Trainer._emit_hooks, line 129: the hook is called unless it is skipped.
ShouldCall(h, timescale, count) ==
    ~(Hook(h).timescale # timescale \/ count % Hook(h).interval # 0)

\* Trainer._call_hook, lines 140-146: (hook_log, stop) for an outcome that
\* is no error.
CallHook(h, o) ==
    CASE o = "ret" -> [log |-> Hook(h).ret, stop |-> FALSE]
      [] o = "stop" -> [log |-> Hook(h).stopval, stop |-> TRUE]

RECURSIVE EmitFrom(_, _, _, _, _, _)
\* The loop of Trainer._emit_hooks from the i-th hook on.  acc carries
\* should_stop, the hooks called so far, self.logs and whether an
\* exception left the loop.
EmitFrom(i, hs, timescale, count, out, acc) ==
    IF i > Len(hs) THEN acc
    ELSE IF ~ShouldCall(hs[i], timescale, count)
    THEN EmitFrom(i + 1, hs, timescale, count, out, acc)
    ELSE IF out[hs[i]] = "raise"
    THEN [acc EXCEPT !.raised = TRUE, !.invoked = Append(@, hs[i])]
    ELSE LET c == CallHook(hs[i], out[hs[i]])
             r == AddLog(hs[i], c.log, acc.logs)
             acc1 == [should_stop |-> acc.should_stop \/ c.stop,
                      invoked |-> Append(acc.invoked, hs[i]),
                      logs |-> r.logs,
                      raised |-> r.err]
         IN IF r.err THEN acc1
            ELSE EmitFrom(i + 1, hs, timescale, count, out, acc1)

EmitHooks(hs, timescale, count, out, lg) ==
    EmitFrom(1, hs, timescale, count, out,
             [should_stop |-> FALSE, invoked |-> <<>>, logs |-> lg,
              raised |-> FALSE])

\* -------------------------------------------------------------- variables
VARIABLES
    \* Trainer fields (trainer.py, __init__)
    hooks, current_epoch_nr, current_update_nr, logs, double_buffering,
    \* the main thread inside train(): position, the data source's number of
    \* batches, the current iterator's cursor, and the generator's locals
    pc, nBatches, cursor, gen_i, run_it_stop, mainB,
    \* the prefetch thread of the current generator, the threads abandoned
    \* by earlier generators, and the data last fed to the network
    thread, stale, netData,
    \* history: train calls made, outcome of the last one, counters when it
    \* began, stepper.run calls since construction, what the current
    \* generator fed and yielded and how its loop ended, the dispatches
    \* made before the loop, the last dispatch, whether a stop was
    \* signalled inside the loop, whether a fetch error reached the main
    \* thread, and the data fed when the running step began
    calls, result, atCall, runCalls, fed, yields, endedBy, baseline,
    lastDispatch, stopSeen, faulted, stepData,
    \* _add_log driven alone: calls made, whether the last one raised, and
    \* the last (name, value) passed
    addLogCalls, addLogRaised, addLogArg,
    \* the LSTM layer: setup's arguments and result, and the buffers of
    \* backward_pass
    lstm

tvars == <<hooks, current_epoch_nr, current_update_nr, logs,
           double_buffering, pc, nBatches, cursor, gen_i, run_it_stop,
           mainB, thread, stale, netData, calls, result, atCall, runCalls,
           fed, yields, endedBy, baseline, lastDispatch, stopSeen, faulted,
           stepData>>
avars == <<addLogCalls, addLogRaised, addLogArg>>
vars == <<tvars, avars, lstm>>

\* The prefetch thread t of the current generator: not started, running
\* run_it, ended, or ended by an exception.
NoThread == "none"
\* lastDispatch: the last dispatch made on the present list of hooks.
NoDispatch == [ts |-> "none", count |-> 0, invoked |-> <<>>,
               stop |-> FALSE, raised |-> FALSE]

\* Trainer._start_hooks, line 112
StartLogs == "training_loss" :> LList(<<NaN>>)

\* Trainer.__init__, lines 32-38, with double_buffering one of modes, a
\* data source of one of the sizes in sizes, and lg in self.logs.
InitTrainer(sizes, modes, lg) ==
    /\ hooks = <<>>
    /\ current_epoch_nr = 0
    /\ current_update_nr = 0
    /\ logs = lg
    /\ double_buffering \in modes
    /\ pc = "idle"
    /\ nBatches \in sizes
    /\ cursor = 0
    /\ gen_i = 0
    /\ run_it_stop = FALSE
    /\ mainB = 0
    /\ thread = NoThread
    /\ stale = {}
    /\ netData = 0
    /\ calls = 0
    /\ result = "none"
    /\ atCall = <<0, 0, 0>>
    /\ runCalls = 0
    /\ fed = <<>>
    /\ yields = <<>>
    /\ endedBy = "none"
    /\ baseline = <<0, 0>>
    /\ lastDispatch = NoDispatch
    /\ stopSeen = FALSE
    /\ faulted = FALSE
    /\ stepData = 0

InitAddLog ==
    /\ addLogCalls = 0
    /\ addLogRaised = FALSE
    /\ addLogArg = <<"", NoneV>>

InitLstmIdle == lstm = [op |-> "none"]

Init == InitTrainer(0..MaxBatches, BOOLEAN, <<>>) /\ InitAddLog /\ InitLstmIdle

\* The scripted run: a data source of ScriptedUpdates batches, fed by
\* run_network.
InitTen ==
    /\ InitTrainer({ScriptedUpdates}, {FALSE}, <<>>)
    /\ InitAddLog
    /\ InitLstmIdle

\* ---------------------------------------------------------------- add_hook
\* Trainer.add_hook, lines 57-59
add_hook(h) ==
    /\ pc = "idle"
    /\ \A i \in 1..Len(hooks) : hooks[i] # h
    /\ hooks' = Append(hooks, h)
    /\ lastDispatch' = NoDispatch
    /\ UNCHANGED <<current_epoch_nr, current_update_nr, logs,
                   double_buffering, pc, nBatches, cursor, gen_i,
                   run_it_stop, mainB, thread, stale, netData, calls,
                   result, atCall, runCalls, fed, yields, endedBy, baseline,
                   stopSeen, faulted, stepData>>
    /\ UNCHANGED <<avars, lstm>>

\* Trainer.add_hook, lines 57-58: a name already present raises ValueError
\* and the trainer is left as it was.
add_hook_duplicate(h) ==
    /\ pc = "idle"
    /\ \E i \in 1..Len(hooks) : hooks[i] = h
    /\ UNCHANGED vars

\* ------------------------------------------------------------------- train
\* The outcomes of the hooks' calls in one dispatch: hooks that are not
\* called have none.
DispatchOutcomes(timescale, count) ==
    {out \in [HookNames -> Outcomes] :
        \A h \in HookNames :
            (\A i \in 1..Len(hooks) :
                hooks[i] = h => ~ShouldCall(h, timescale, count))
            => out[h] = "ret"}

Dispatched(timescale, count, d) ==
    [ts |-> timescale, count |-> count, invoked |-> d.invoked,
     stop |-> d.should_stop, raised |-> d.raised]

\* A prefetch thread that is still running when its generator is left
\* (break, return or an exception in train) is never joined.  It goes on
\* alone on its generator's iterator: b is the batch its next(it) gives, 0
\* when the iterator is exhausted; old tells a thread of an earlier train
\* call from one of the current call.
Abandoned ==
    IF thread = "started"
    THEN {[b |-> IF cursor < nBatches THEN cursor + 1 ELSE 0,
           old |-> FALSE]}
    ELSE {}

\* train() ends, by return or by an exception: its locals and the
\* generator's are gone.
Leave(how) ==
    /\ pc' = "idle"
    /\ result' = how
    /\ stale' = stale \cup Abandoned
    /\ thread' = NoThread
    /\ cursor' = 0
    /\ gen_i' = 0
    /\ run_it_stop' = FALSE
    /\ mainB' = 0
    /\ fed' = <<>>
    /\ yields' = <<>>
    /\ endedBy' = "none"

\* train() goes on: nothing of the above changes.
Stay == UNCHANGED <<result, stale, thread, cursor, gen_i, run_it_stop,
                    mainB, fed, yields, endedBy>>

\* A counter that starts again from 0.
CounterReset(c) == c - c

\* Trainer.train, lines 62-75: nothing assigns the counters before the
\* loop, a train call goes on from where the last one ended.
CounterOnTrain(c) == c

\* Trainer.train, lines 64-73: the assertion on the data names,
\* stepper.start and _start_hooks.
train_call ==
    /\ pc = "idle"
    /\ calls < MaxTrainCalls
    /\ calls' = calls + 1
    /\ atCall' = <<current_epoch_nr, current_update_nr, runCalls>>
    /\ stopSeen' = FALSE
    /\ faulted' = FALSE
    /\ baseline' = <<0, 0>>
    /\ lastDispatch' = NoDispatch
    /\ stale' = {[s EXCEPT !.old = TRUE] : s \in stale}
    /\ current_epoch_nr' = CounterOnTrain(current_epoch_nr)
    /\ current_update_nr' = CounterOnTrain(current_update_nr)
    /\ \E how \in {"ok", "assert", "start_raises"} :
        \/ /\ how = "ok"
           /\ logs' = StartLogs
           /\ pc' = "pre_epoch"
           /\ result' = "running"
        \/ /\ how = "assert"
           /\ logs' = logs
           /\ pc' = "idle"
           /\ result' = "raised"
        \/ /\ how = "start_raises"
           /\ hooks # <<>>
           /\ logs' = StartLogs
           /\ pc' = "idle"
           /\ result' = "raised"
    /\ UNCHANGED <<hooks, double_buffering, nBatches, cursor, gen_i,
                   run_it_stop, mainB, thread, netData, runCalls, fed,
                   yields, endedBy, stepData>>
    /\ UNCHANGED <<avars, lstm>>

\* A train() that goes on whatever the dispatch before the loop returned.
NoReturn(d) == d.should_stop /\ ~d.should_stop

\* Trainer.train, lines 74-75: "if <dispatch>: return".
ReturnsEarly(d) == d.should_stop

\* Trainer.train, line 74, left operand: the epoch dispatch before the loop.
baseline_epoch ==
    /\ pc = "pre_epoch"
    /\ \E out \in DispatchOutcomes("epoch", current_epoch_nr) :
        LET d == EmitHooks(hooks, "epoch", current_epoch_nr, out, logs)
        IN /\ logs' = d.logs
           /\ lastDispatch' = Dispatched("epoch", current_epoch_nr, d)
           /\ baseline' = <<baseline[1] + 1, baseline[2]>>
           /\ IF d.raised THEN Leave("raised")
              ELSE IF ReturnsEarly(d) THEN Leave("returned")
              ELSE /\ pc' = "pre_update"
                   /\ Stay
    /\ UNCHANGED <<hooks, current_epoch_nr, current_update_nr,
                   double_buffering, nBatches, netData, calls, atCall,
                   runCalls, stopSeen, faulted, stepData>>
    /\ UNCHANGED <<avars, lstm>>

\* Trainer.train, line 74, right operand of "or": reached only when the
\* epoch dispatch returned False.
baseline_update ==
    /\ pc = "pre_update"
    /\ \E out \in DispatchOutcomes("update", current_update_nr) :
        LET d == EmitHooks(hooks, "update", current_update_nr, out, logs)
        IN /\ logs' = d.logs
           /\ lastDispatch' = Dispatched("update", current_update_nr, d)
           /\ baseline' = <<baseline[1], baseline[2] + 1>>
           /\ IF d.raised THEN Leave("raised")
              ELSE IF ReturnsEarly(d) THEN Leave("returned")
              ELSE /\ pc' = "epoch_top"
                   /\ Stay
    /\ UNCHANGED <<hooks, current_epoch_nr, current_update_nr,
                   double_buffering, nBatches, netData, calls, atCall,
                   runCalls, stopSeen, faulted, stepData>>
    /\ UNCHANGED <<avars, lstm>>

\* Trainer.train, lines 80-89: a new epoch, a fresh iterator and a fresh
\* generator (run_network_double_buffer or run_network).
epoch_begin ==
    /\ pc = "epoch_top"
    /\ current_epoch_nr < MaxEpochs
    /\ current_epoch_nr' = current_epoch_nr + 1
    /\ cursor' = 0
    /\ gen_i' = 0
    /\ run_it_stop' = FALSE
    /\ fed' = <<>>
    /\ yields' = <<>>
    /\ endedBy' = "none"
    /\ pc' = IF double_buffering THEN "gen_start" ELSE "gen_next"
    /\ UNCHANGED <<hooks, current_update_nr, logs, double_buffering,
                   nBatches, mainB, thread, stale, netData, calls, result,
                   atCall, runCalls, baseline, lastDispatch, stopSeen,
                   faulted, stepData>>
    /\ UNCHANGED <<avars, lstm>>

\* ------------------------------------------ run_network_double_buffer
\* Line 184, run_it(iterator) in the main thread, first half: next(it).
\* The iterator yields a batch, is exhausted (run_it.stop = True), or
\* raises another error, which leaves the generator and train().
gen_main_next ==
    /\ pc = "gen_start"
    /\ \/ /\ cursor < nBatches
          /\ cursor' = cursor + 1
          /\ mainB' = cursor + 1
          /\ pc' = "gen_provide"
          /\ UNCHANGED <<run_it_stop, faulted, result, stale, thread,
                         gen_i, fed, yields, endedBy>>
       \/ /\ cursor < nBatches
          /\ faulted' = TRUE
          /\ Leave("raised")
       \/ /\ cursor >= nBatches
          /\ run_it_stop' = TRUE
          /\ pc' = "gen_loop"
          /\ UNCHANGED <<cursor, mainB, faulted, result, stale, thread,
                         gen_i, fed, yields, endedBy>>
    /\ UNCHANGED <<hooks, current_epoch_nr, current_update_nr, logs,
                   double_buffering, nBatches, netData, calls, atCall,
                   runCalls, baseline, lastDispatch, stopSeen, stepData>>
    /\ UNCHANGED <<avars, lstm>>

\* Line 184, second half: net.provide_external_data(batch), which may raise.
gen_main_provide ==
    /\ pc = "gen_provide"
    /\ \/ /\ netData' = mainB
          /\ fed' = Append(fed, mainB)
          /\ pc' = "gen_loop"
          /\ UNCHANGED <<faulted, result, stale, thread, cursor, gen_i,
                         run_it_stop, mainB, yields, endedBy>>
       \/ /\ faulted' = TRUE
          /\ Leave("raised")
          /\ UNCHANGED netData
    /\ UNCHANGED <<hooks, current_epoch_nr, current_update_nr, logs,
                   double_buffering, nBatches, calls, atCall, runCalls,
                   baseline, lastDispatch, stopSeen, stepData>>
    /\ UNCHANGED <<avars, lstm>>

\* Lines 186-189: while not run_it.stop: start the thread and yield i; with
\* run_it.stop set the generator ends and so does the for loop of train().
gen_loop ==
    /\ pc = "gen_loop"
    /\ IF ~run_it_stop
       THEN /\ thread' = "started"
            /\ yields' = Append(yields, gen_i)
            /\ pc' = "yielded"
            /\ UNCHANGED endedBy
       ELSE /\ pc' = "epoch_end"
            /\ endedBy' = "exhausted"
            /\ UNCHANGED <<thread, yields>>
    /\ UNCHANGED <<hooks, current_epoch_nr, current_update_nr, logs,
                   double_buffering, nBatches, cursor, gen_i, run_it_stop,
                   mainB, stale, netData, calls, result, atCall, runCalls,
                   fed, baseline, lastDispatch, stopSeen, faulted,
                   stepData>>
    /\ UNCHANGED <<avars, lstm>>

\* An index that stays where it is.
SameIndex(i) == i

\* Line 191, i += 1.
NextIndex(i) == i + 1

\* Lines 190-191: t.join() returns once the thread has ended, however it
\* ended (an exception inside the thread is not passed on), then i += 1.
gen_join ==
    /\ pc = "resume"
    /\ thread \in {"done", "failed"}
    /\ faulted' = (faulted \/ thread = "failed")
    /\ thread' = NoThread
    /\ gen_i' = NextIndex(gen_i)
    /\ pc' = "gen_loop"
    /\ UNCHANGED <<hooks, current_epoch_nr, current_update_nr, logs,
                   double_buffering, nBatches, cursor, run_it_stop, mainB,
                   stale, netData, calls, result, atCall, runCalls, fed,
                   yields, endedBy, baseline, lastDispatch, stopSeen,
                   stepData>>
    /\ UNCHANGED <<avars, lstm>>

\* run_it in the prefetch thread, lines 177-180: next(it) and
\* net.provide_external_data.  Nothing else reads the iterator or
\* run_it.stop before the join, so the two calls are one step.  next(it)
\* raising another error than StopIteration ends the thread and finishes
\* the iterator, as it finishes a Python generator; provide_external_data
\* raising ends the thread with the batch consumed.
thread_run ==
    /\ thread = "started"
    /\ \/ /\ cursor < nBatches
          /\ cursor' = cursor + 1
          /\ netData' = cursor + 1
          /\ fed' = Append(fed, cursor + 1)
          /\ thread' = "done"
          /\ UNCHANGED run_it_stop
       \/ /\ cursor < nBatches
          /\ cursor' \in {nBatches, cursor + 1}
          /\ thread' = "failed"
          /\ UNCHANGED <<run_it_stop, netData, fed>>
       \/ /\ cursor >= nBatches
          /\ run_it_stop' = TRUE
          /\ thread' = "done"
          /\ UNCHANGED <<cursor, netData, fed>>
    /\ UNCHANGED <<hooks, current_epoch_nr, current_update_nr, logs,
                   double_buffering, pc, nBatches, gen_i, mainB, stale,
                   calls, result, atCall, runCalls, yields, endedBy,
                   baseline, lastDispatch, stopSeen, faulted, stepData>>
    /\ UNCHANGED <<avars, lstm>>

\* An abandoned thread runs the same run_it on the iterator and the run_it
\* of the generator that started it: it feeds its batch, or ends without
\* feeding (exhaustion, or an error).
stale_run(s) ==
    /\ s \in stale
    /\ stale' = stale \ {s}
    /\ \/ /\ s.b > 0
          /\ netData' = s.b
       \/ UNCHANGED netData
    /\ UNCHANGED <<hooks, current_epoch_nr, current_update_nr, logs,
                   double_buffering, pc, nBatches, cursor, gen_i,
                   run_it_stop, mainB, thread, calls, result, atCall,
                   runCalls, fed, yields, endedBy, baseline, lastDispatch,
                   stopSeen, faulted, stepData>>
    /\ UNCHANGED <<avars, lstm>>

\* ----------------------------------------------------------- run_network
\* Lines 195-197: enumerate(iterator) gives the next batch, the batch is
\* fed and i is yielded; exhaustion ends the loop, any other error of next
\* or of provide_external_data leaves the generator and train().
run_network ==
    /\ pc = "gen_next"
    /\ \/ /\ cursor < nBatches
          /\ cursor' = cursor + 1
          /\ netData' = cursor + 1
          /\ fed' = Append(fed, cursor + 1)
          /\ yields' = Append(yields, gen_i)
          /\ gen_i' = gen_i + 1
          /\ pc' = "yielded"
          /\ UNCHANGED <<endedBy, faulted, result, stale, thread,
                         run_it_stop, mainB>>
       \/ /\ cursor < nBatches
          /\ faulted' = TRUE
          /\ Leave("raised")
          /\ UNCHANGED netData
       \/ /\ cursor >= nBatches
          /\ pc' = "epoch_end"
          /\ endedBy' = "exhausted"
          /\ UNCHANGED <<cursor, netData, fed, yields, gen_i, faulted,
                         result, stale, thread, run_it_stop, mainB>>
    /\ UNCHANGED <<hooks, current_epoch_nr, current_update_nr, logs,
                   double_buffering, nBatches, calls, atCall, runCalls,
                   baseline, lastDispatch, stopSeen, stepData>>
    /\ UNCHANGED <<avars, lstm>>

\* ------------------------------------------------- the body of the loop
\* Trainer.train, lines 90-91: the update counter and stepper.run().
body_begin ==
    /\ pc = "yielded"
    /\ current_update_nr < MaxUpdates
    /\ current_update_nr' = current_update_nr + 1
    /\ runCalls' = runCalls + 1
    /\ stepData' = netData
    /\ pc' = "in_step"
    /\ UNCHANGED <<hooks, current_epoch_nr, logs, double_buffering,
                   nBatches, cursor, gen_i, run_it_stop, mainB, thread,
                   stale, netData, calls, result, atCall, fed, yields,
                   endedBy, baseline, lastDispatch, stopSeen, faulted>>
    /\ UNCHANGED <<avars, lstm>>

\* Trainer.train, lines 92-94: net.apply_weight_modifiers() and the update
\* dispatch; a stop breaks the for loop, which leaves the generator
\* suspended at its yield, its thread unjoined.
body_end ==
    /\ pc = "in_step"
    /\ \E out \in DispatchOutcomes("update", current_update_nr) :
        LET d == EmitHooks(hooks, "update", current_update_nr, out, logs)
        IN /\ logs' = d.logs
           /\ stepData' = 0
           /\ lastDispatch' = Dispatched("update", current_update_nr, d)
           /\ IF d.raised
              THEN /\ Leave("raised")
                   /\ UNCHANGED stopSeen
              ELSE IF d.should_stop
              THEN /\ pc' = "epoch_end"
                   /\ endedBy' = "break"
                   /\ stopSeen' = TRUE
                   /\ stale' = stale \cup Abandoned
                   /\ thread' = NoThread
                   /\ UNCHANGED <<result, cursor, gen_i, run_it_stop,
                                  mainB, fed, yields>>
              ELSE /\ pc' = IF double_buffering THEN "resume"
                            ELSE "gen_next"
                   /\ Stay
                   /\ UNCHANGED stopSeen
    /\ UNCHANGED <<hooks, current_epoch_nr, current_update_nr,
                   double_buffering, nBatches, netData, calls, atCall,
                   runCalls, baseline, faulted>>
    /\ UNCHANGED <<avars, lstm>>

\* np.mean(train_loss): NaN for an epoch without a step.
MeanLoss == IF yields = <<>> THEN NaN ELSE Loss

\* Trainer.train, lines 96-98: the epoch's mean loss is logged and the
\* epoch hooks are dispatched; only their stop ends the while loop.
epoch_end ==
    /\ pc = "epoch_end"
    /\ \E out \in DispatchOutcomes("epoch", current_epoch_nr) :
        LET l == AddLog("training_loss", Sc(MeanLoss), logs)
            d == EmitHooks(hooks, "epoch", current_epoch_nr, out, l.logs)
        IN IF l.err
           THEN /\ logs' = l.logs
                /\ Leave("raised")
                /\ UNCHANGED <<lastDispatch, stopSeen>>
           ELSE /\ logs' = d.logs
                /\ lastDispatch' = Dispatched("epoch", current_epoch_nr, d)
                /\ IF d.raised
                   THEN /\ Leave("raised")
                        /\ UNCHANGED stopSeen
                   ELSE IF d.should_stop
                   THEN /\ Leave("returned")
                        /\ stopSeen' = TRUE
                   ELSE /\ pc' = "epoch_top"
                        /\ Stay
                        /\ UNCHANGED stopSeen
    /\ UNCHANGED <<hooks, current_epoch_nr, current_update_nr,
                   double_buffering, nBatches, netData, calls, atCall,
                   runCalls, baseline, faulted, stepData>>
    /\ UNCHANGED <<avars, lstm>>

Next ==
    \/ \E h \in HookNames : add_hook(h)
    \/ \E h \in HookNames : add_hook_duplicate(h)
    \/ train_call
    \/ baseline_epoch
    \/ baseline_update
    \/ epoch_begin
    \/ gen_main_next
    \/ gen_main_provide
    \/ gen_loop
    \/ gen_join
    \/ thread_run
    \/ \E s \in stale : stale_run(s)
    \/ run_network
    \/ body_begin
    \/ body_end
    \/ epoch_end

Spec == Init /\ [][Next]_vars

\* With run_network no thread is ever started.
NextTen ==
    \/ \E h \in HookNames : add_hook(h)
    \/ \E h \in HookNames : add_hook_duplicate(h)
    \/ train_call
    \/ baseline_epoch
    \/ baseline_update
    \/ epoch_begin
    \/ run_network
    \/ body_begin
    \/ body_end
    \/ epoch_end

SpecTen == InitTen /\ [][NextTen]_vars

\* ------------------------------------------------- _add_log driven alone
\* The results a hook may hand to _add_log: None, a value, or a mapping
\* of names to such results, two levels deep.
Scalars == {1, 2}
LogKeys == {"a", "b"}
LeafVals == {NoneV} \cup {Sc(x) : x \in Scalars}
InnerVals == LeafVals \cup {Dc(<<<<"a", Sc(1)>>>>)}
ItemSeqs(vals) ==
    {<<>>}
    \cup {<<<<kk, v>>>> : kk \in LogKeys, v \in vals}
    \cup {items \in {<<<<k1, v1>>, <<k2, v2>>>> :
                        k1 \in LogKeys, k2 \in LogKeys,
                        v1 \in vals, v2 \in vals} :
            items[1][1] # items[2][1]}
LogVals == LeafVals \cup {Dc(items) : items \in ItemSeqs(InnerVals)}
LogNames == {"u1", "training_loss"}

\* The logs are those of a train call that has run _start_hooks (line 112).
InitLog ==
    /\ InitTrainer({0}, {FALSE}, StartLogs)
    /\ addLogCalls = 0
    /\ addLogRaised = FALSE
    /\ addLogArg = <<"", NoneV>>
    /\ InitLstmIdle

\* Trainer._emit_hooks, line 134: self._add_log(name, hook_log, ...).  An
\* exception of _add_log leaves _emit_hooks and train(), so no call follows
\* it in the same train call.
add_log_call(name, val) ==
    /\ addLogCalls < MaxAddLogs
    /\ ~addLogRaised
    /\ LET r == AddLog(name, val, logs)
       IN /\ logs' = r.logs
          /\ addLogRaised' = r.err
    /\ addLogArg' = <<name, val>>
    /\ addLogCalls' = addLogCalls + 1
    /\ UNCHANGED <<hooks, current_epoch_nr, current_update_nr,
                   double_buffering, pc, nBatches, cursor, gen_i,
                   run_it_stop, mainB, thread, stale, netData, calls,
                   result, atCall, runCalls, fed, yields, endedBy, baseline,
                   lastDispatch, stopSeen, faulted, stepData>>
    /\ UNCHANGED lstm

NextLog == \E name \in LogNames, val \in LogVals : add_log_call(name, val)

SpecLog == InitLog /\ [][NextLog]_vars

\* ------------------------------------------- LstmPeepholeLayerImpl.setup
\* The value of kwargs['size']: absent, an int, or a float that is no whole
\* number (v stands for v + 0.5).
SizeArgs ==
    {[kind |-> "absent", v |-> 0]}
    \cup {[kind |-> "int", v |-> n] : n \in -1..MaxSize}
    \cup {[kind |-> "float", v |-> n] : n \in 0..MaxSize}

InSizes == 1..MaxSize

\* Line 30, isinstance(self.size, int).
IsInstanceInt(sz) == sz.kind = "int"

\* BufferStructure(*shape, context_size=.., is_backward_only=..): the shape
\* template keeps what it is given; timed tells a leading ('T', 'B').
BufferStructure(timed, feature, context_size, is_backward_only) ==
    [timed |-> timed, feature |-> feature, context_size |-> context_size,
     is_backward_only |-> is_backward_only]

ForwardInternals == <<"Za", "Zb", "Ia", "Ib", "Fa", "Fb", "Oa", "Ob",
                      "Ca", "Cb">>
BackwardInternals == <<"dZa", "dZb", "dIa", "dIb", "dFa", "dFb", "dOa",
                       "dOb", "dCa", "dCb">>

\* Lines 34-36.
SetupOutputs(size) ==
    <<<<"default", BufferStructure(TRUE, <<size>>, 1, FALSE)>>>>

\* Lines 38-55.
SetupParameters(size, in_size) ==
    [i \in 1..4 |-> <<<<"Wz", "Wi", "Wf", "Wo">>[i],
                      BufferStructure(FALSE, <<size, in_size>>, 0, FALSE)>>]
    \o [i \in 1..3 |-> <<<<"Wci", "Wcf", "Wco">>[i],
                         BufferStructure(FALSE, <<size>>, 0, FALSE)>>]
    \o [i \in 1..4 |-> <<<<"Rz", "Ri", "Rf", "Ro">>[i],
                         BufferStructure(FALSE, <<size, size>>, 0, FALSE)>>]
    \o [i \in 1..4 |-> <<<<"bz", "bi", "bf", "bo">>[i],
                         BufferStructure(FALSE, <<size>>, 0, FALSE)>>]

\* Lines 57-87.
SetupInternals(size) ==
    [i \in 1..10 |-> <<ForwardInternals[i],
                       BufferStructure(TRUE, <<size>>, 1, FALSE)>>]
    \o [i \in 1..10 |-> <<BackwardInternals[i],
                          BufferStructure(TRUE, <<size>>, 1, TRUE)>>]

\* setup(kwargs, in_shapes), lines 25-88.
setup(arg, in_size) ==
    /\ LET size == IF arg.kind = "absent"
                   THEN [kind |-> "int", v |-> in_size]
                   ELSE arg
       IN IF ~IsInstanceInt(size)
          THEN lstm' = [op |-> "setup", arg |-> arg, in_size |-> in_size,
                        size |-> size, raised |-> "LayerValidationError",
                        outputs |-> <<>>, parameters |-> <<>>,
                        internals |-> <<>>]
          ELSE lstm' = [op |-> "setup", arg |-> arg, in_size |-> in_size,
                        size |-> size, raised |-> "",
                        outputs |-> SetupOutputs(size.v),
                        parameters |-> SetupParameters(size.v, in_size),
                        internals |-> SetupInternals(size.v)]
    /\ UNCHANGED <<tvars, avars>>

\* ------------------------------------ backward_pass, peephole gradients
\* A buffer of T time steps with context_size = 1 has the slots 0..T, the
\* last of them being index -1.  One batch entry and one cell are modelled;
\* the products and sums below are elementwise in both.
BufVals == {0, 1}

\* An index that counts a negative number as slot 0.
IdxClamped(i, n) == IF i < 0 THEN 0 ELSE i

\* A Python index into n slots.
Idx(i, n) == IF i < 0 THEN n + i ELSE i

\* The Python slice buf[a:b] of a buffer of n slots, as a sequence.
Slice(buf, n, a, b) ==
    LET lo == IF a < 0 THEN (IF n + a < 0 THEN 0 ELSE n + a) ELSE a
        hi == IF b < 0 THEN (IF n + b < 0 THEN 0 ELSE n + b) ELSE b
    IN [j \in 1..(IF hi > lo THEN hi - lo ELSE 0) |-> buf[lo + j - 1]]

\* handler.mult_tt on flattened slices of equal length.
MultTT(a, b) == [j \in 1..Len(a) |-> a[j] * b[j]]

RECURSIVE SumT(_)
\* handler.sum_t(.., axis=0).
SumT(a) == IF a = <<>> THEN 0 ELSE Head(a) + SumT(Tail(a))

\* The boundary term of lines 287-289 and 291-292: both are computed from
\* dCa[-1] and dIa[0].
BoundaryTerm(n, Ca, dCa, dIa, dFa) == dCa[Idx(-1, n)] * dIa[0]

\* backward_pass(buffers), lines 183-220 and 252-293, for T time steps.
\* Line 183 fills dCa with 0 and the loop of lines 186-220 writes the slots
\* 0..T-1 of the delta buffers only: there they hold what the loop computed
\* (dc for dCa), in slot T dCa holds 0 and the gates' deltas what they held
\* before (dctx).  g0 is what the three gradients held before the call.
backward_pass(T, Ca, dIa0, dFa0, dOa0, dc, dctx, g0) ==
    /\ LET n == T + 1
           dCa == [t \in 0..T |-> IF t < T THEN dc ELSE 0]
           dIa == [t \in 0..T |-> IF t < T THEN dIa0[t] ELSE dctx]
           dFa == [t \in 0..T |-> IF t < T THEN dFa0[t] ELSE dctx]
           dOa == [t \in 0..T |-> IF t < T THEN dOa0[t] ELSE dctx]
           flat_cell == Slice(Ca, n, 0, -2)
           flat_cell2 == Slice(Ca, n, 0, -1)
           flat_dOa == Slice(dOa, n, 0, -1)
           flat_dIa == Slice(dIa, n, 1, -1)
           flat_dFa == Slice(dFa, n, 1, -1)
       IN lstm' = [op |-> "backward", T |-> T, Ca |-> Ca, dCa |-> dCa,
                   dIa |-> dIa, dFa |-> dFa, dOa |-> dOa, g0 |-> g0,
                   dWco |-> g0 + SumT(MultTT(flat_cell2, flat_dOa)),
                   dWci |-> g0 + SumT(MultTT(flat_cell, flat_dIa))
                              + BoundaryTerm(n, Ca, dCa, dIa, dFa),
                   dWcf |-> g0 + SumT(MultTT(flat_cell, flat_dFa))
                              + BoundaryTerm(n, Ca, dCa, dIa, dFa)]
    /\ UNCHANGED <<tvars, avars>>

\* ------------------------------------------------------------ forward_pass
\* forward_pass(buffers), lines 118-128, for T time steps (x.shape[0]): the
\* buffers y and Ca have the slots 0..T, as Za[:-1] takes the T steps of
\* flat_x (lines 121-125).  cy and cc are what the slot T of y and of Ca
\* holds before the pass, old what the other slots hold.  readY and readCa
\* list the slots that the steps read as y[t - 1] and Ca[t - 1], seenY and
\* seenCa what they found there.
forward_begin(T, cy, cc, old) ==
    lstm' = [op |-> "forward", T |-> T, t |-> 0, cy |-> cy, cc |-> cc,
             y |-> [sl \in 0..T |-> IF sl = T THEN cy ELSE old],
             Ca |-> [sl \in 0..T |-> IF sl = T THEN cc ELSE old],
             readY |-> <<>>, readCa |-> <<>>,
             seenY |-> <<>>, seenCa |-> <<>>,
             wrote |-> {}]
    /\ UNCHANGED <<tvars, avars>>

\* One pass of the loop of lines 130-160.  The activations of the block
\* input and of the gates (Zb, Ib, Fb, Ob) depend on the inputs and on the
\* weights: any value; the cell is computed from them by lines 149-150 and
\* the output by lines 159-160, with the activation 'linear' (line 97).
forward_step(Zb, Ib, Fb, Ob) ==
    /\ lstm.op = "forward"
    /\ lstm.t < lstm.T
    /\ LET t == lstm.t
           n == lstm.T + 1
           prev == Idx(t - 1, n)
           cell == Ib * Zb + Fb * lstm.Ca[prev]
       IN lstm' = [lstm EXCEPT
                     !.readY = Append(@, prev),
                     !.readCa = Append(@, prev),
                     !.seenY = Append(@, lstm.y[prev]),
                     !.seenCa = Append(@, lstm.Ca[prev]),
                     !.Ca = [@ EXCEPT ![Idx(t, n)] = cell],
                     !.y = [@ EXCEPT ![Idx(t, n)] = Ob * cell],
                     !.wrote = @ \cup {Idx(t, n)},
                     !.t = t + 1]
    /\ UNCHANGED <<tvars, avars>>

InitLayer == InitTrainer({0}, {FALSE}, <<>>) /\ InitAddLog /\ InitLstmIdle

\* A behaviour applies one operation to one layer: the result of either
\* depends on its arguments only.
NextLayer ==
    \/ /\ lstm.op = "none"
       /\ \E arg \in SizeArgs, in_size \in InSizes : setup(arg, in_size)
    \/ /\ lstm.op = "none"
       /\ \E T \in 1..MaxT :
           \E Ca \in [0..T -> BufVals],
              dIa0 \in [0..(T - 1) -> BufVals],
              dFa0 \in [0..(T - 1) -> BufVals],
              dOa0 \in [0..(T - 1) -> BufVals],
              dc \in BufVals, dctx \in BufVals, g0 \in BufVals :
               backward_pass(T, Ca, dIa0, dFa0, dOa0, dc, dctx, g0)
    \/ /\ lstm.op = "none"
       /\ \E T \in 1..MaxT, cy \in BufVals, cc \in BufVals, old \in BufVals :
           forward_begin(T, cy, cc, old)
    \/ \E Zb \in BufVals, Ib \in BufVals, Fb \in BufVals, Ob \in BufVals :
           forward_step(Zb, Ib, Fb, Ob)

SpecLayer == InitLayer /\ [][NextLayer]_vars

\* ================================================================ claims

\* C1 (as claimed): once a hook has signalled stop in a dispatch made inside
\* the epoch loop, stepper.run is not called again and current_epoch_nr is
\* not incremented again in that train call.
C1_StopHonored ==
    [][stopSeen => (runCalls' = runCalls
                    /\ current_epoch_nr' = current_epoch_nr)]_vars

\* The hooks of the list hs that a dispatch of timescale ts at count n is
\* to call, in the order they were added.
DueHooks(hs, ts, n) ==
    LET Due(h) == Hook(h).timescale = ts /\ n % Hook(h).interval = 0
    IN SelectSeq(hs, Due)

IsPrefix(a, b) == Len(a) <= Len(b) /\ a = SubSeq(b, 1, Len(a))

\* C2 (as claimed): in every dispatch a hook is called iff its timescale
\* is the dispatched one and the counter modulo its interval is 0, in the
\* order added; and the update hook with interval 2 is called on the update
\* counts 2, 4, 6, 8, 10 only.
C2_Original ==
    lastDispatch.ts # "none" =>
        /\ lastDispatch.invoked =
               DueHooks(hooks, lastDispatch.ts, lastDispatch.count)
        /\ (\E i \in 1..Len(lastDispatch.invoked) :
                lastDispatch.invoked[i] = "u2")
           => lastDispatch.count \in {2, 4, 6, 8, 10}

\* C2 (amended): a dispatch that no exception cuts short calls exactly the
\* hooks whose timescale is the dispatched one and whose interval divides
\* the counter, in the order added; one cut short by an exception calls a
\* non-empty prefix of them.  So the update hook with interval 2 is called
\* exactly on the even update counts, 0 (the dispatch before the first
\* step) included, and never on an odd one.
C2_Dispatch ==
    lastDispatch.ts # "none" =>
        LET due == DueHooks(hooks, lastDispatch.ts, lastDispatch.count)
            u2Called == \E i \in 1..Len(lastDispatch.invoked) :
                            lastDispatch.invoked[i] = "u2"
            u2Added == \E i \in 1..Len(hooks) : hooks[i] = "u2"
        IN /\ ~lastDispatch.raised => lastDispatch.invoked = due
           /\ lastDispatch.raised =>
                  /\ lastDispatch.invoked # <<>>
                  /\ IsPrefix(lastDispatch.invoked, due)
           /\ u2Called => /\ lastDispatch.ts = "update"
                          /\ lastDispatch.count % 2 = 0
           /\ (/\ u2Added
               /\ lastDispatch.ts = "update"
               /\ lastDispatch.count % 2 = 0
               /\ ~lastDispatch.raised) => u2Called

\* Witness of C2: the first train call on a fresh trainer has made its
\* tenth update, and the dispatch at count 10 called u1 and then u2.
C2_Witness ==
    /\ calls = 1
    /\ atCall = <<0, 0, 0>>
    /\ current_update_nr = 10
    /\ lastDispatch.ts = "update"
    /\ lastDispatch.count = 10
    /\ lastDispatch.invoked = <<"u1", "u2">>

\* train() returned before its first epoch.
ReturnedBeforeLoop ==
    pc = "idle" /\ result = "returned" /\ current_epoch_nr = atCall[1]

\* C3 (as claimed): before the loop train makes exactly one epoch dispatch
\* and exactly one update dispatch, both always; a stop in either makes
\* train return with the counters unchanged and stepper.run not called.
C3_Original ==
    /\ pc \notin {"idle", "pre_epoch", "pre_update"} => baseline = <<1, 1>>
    /\ ReturnedBeforeLoop =>
           /\ baseline = <<1, 1>>
           /\ current_update_nr = atCall[2]
           /\ runCalls = atCall[3]

\* C3 (amended): before any batch is fetched or any step is run, train
\* makes one epoch dispatch and, only when no hook signalled stop in it, one
\* update dispatch; a stop in either makes train return with the counters
\* unchanged and stepper.run not called, and the loop is entered only after
\* both dispatches ended without stop.
C3_Baseline ==
    /\ pc \in {"pre_epoch", "pre_update"} =>
           /\ runCalls = atCall[3]
           /\ current_epoch_nr = atCall[1]
           /\ current_update_nr = atCall[2]
           /\ fed = <<>> /\ thread = "none"
    /\ pc = "pre_epoch" => baseline = <<0, 0>>
    /\ pc = "pre_update" =>
           /\ baseline = <<1, 0>>
           /\ lastDispatch.ts = "epoch" /\ ~lastDispatch.stop
    /\ pc \notin {"idle", "pre_epoch", "pre_update"} => baseline = <<1, 1>>
    /\ (pc = "epoch_top" /\ current_epoch_nr = atCall[1]) =>
           lastDispatch.ts = "update" /\ ~lastDispatch.stop
    /\ ReturnedBeforeLoop =>
           /\ baseline \in {<<1, 0>>, <<1, 1>>}
           /\ current_update_nr = atCall[2]
           /\ runCalls = atCall[3]
           /\ lastDispatch.ts # "none" =>
                  /\ lastDispatch.stop
                  /\ lastDispatch.ts =
                         (IF baseline = <<1, 0>> THEN "epoch" ELSE "update")

\* Witness of C3: an epoch hook signalled stop in the dispatch before the
\* loop, and train returned without the update dispatch.
C3_Witness ==
    /\ ReturnedBeforeLoop
    /\ baseline = <<1, 0>>
    /\ lastDispatch.ts = "epoch"
    /\ lastDispatch.stop
    /\ \E i \in 1..Len(hooks) : hooks[i] = "u1"

\* The fetches of the current train call that are in progress: run_it in
\* the main thread, the generator's prefetch thread, and the threads the
\* call abandoned.
FetchesInProgress ==
    (IF pc = "gen_provide" THEN 1 ELSE 0)
    + (IF thread = "started" THEN 1 ELSE 0)
    + Cardinality({s \in stale : ~s.old})

\* C4 (as claimed): with double buffering at most one fetch is in progress
\* at any moment of a train call, and when the step for the batch of index
\* i begins the fetches 0..i have ended.
C4_OneFetch ==
    double_buffering =>
        /\ FetchesInProgress <= 1
        /\ (pc = "in_step" /\ ~faulted) => Len(fed) >= gen_i + 1

\* C5: a generator that ran to exhaustion without a fetch error has fed the
\* batches 1..n in this order, each once, and has yielded 0..n-1, whether
\* it is run_network_double_buffer or run_network; until then it has fed a
\* prefix of them.
C5_SameBatches ==
    (~faulted /\ thread # "failed" /\ pc # "idle") =>
        /\ fed = [i \in 1..Len(fed) |-> i]
        /\ yields = [i \in 1..Len(yields) |-> i - 1]
        /\ (pc = "epoch_end" /\ endedBy = "exhausted") =>
               Len(fed) = nBatches /\ Len(yields) = nBatches

\* Witness of C5: run_network_double_buffer ran to exhaustion on at least
\* two batches.
C5_Witness ==
    /\ double_buffering
    /\ pc = "epoch_end" /\ endedBy = "exhausted"
    /\ ~faulted
    /\ nBatches >= 2
    /\ fed = [i \in 1..nBatches |-> i]

\* C6 (as claimed): once an error of next(it) or provide_external_data has
\* reached the main thread (raised in it, or in a prefetch thread that was
\* joined since), train has raised: no step, no fetch and no yield follows.
C6_Surfaced == faulted => (pc = "idle" /\ result = "raised")

\* C7: the counters never decrease and are never reset: the epoch counter
\* grows by one exactly when an epoch begins, the update counter by one
\* exactly when the body of the loop takes a yielded batch, and the update
\* counter always is the number of stepper.run calls since construction.
C7_Counters ==
    /\ [](current_update_nr = runCalls /\ current_epoch_nr >= 0)
    /\ [][/\ current_epoch_nr' = current_epoch_nr
               + (IF pc = "epoch_top" /\ pc' # "epoch_top" THEN 1 ELSE 0)
          /\ current_update_nr' = current_update_nr
               + (IF pc = "yielded" /\ pc' = "in_step" THEN 1 ELSE 0)]_vars

\* Witness of C7: a second train call on a trainer with a hook, begun
\* after an epoch and two updates of the first call, is in a step of its
\* own.
C7_Witness ==
    /\ calls = 2
    /\ atCall[2] >= 2
    /\ atCall[1] >= 1
    /\ pc = "in_step"
    /\ current_update_nr = atCall[2] + 1
    /\ Len(hooks) >= 1

\* The entry stored under a name, or its absence.
Absent == [k |-> "absent", items |-> <<>>, sub |-> <<>>]
Entry(f, n) == IF n \in DOMAIN f THEN f[n] ELSE Absent
ItemKeys(items) == {items[i][1] : i \in 1..Len(items)}
ItemVal(items, n) ==
    IF n \in ItemKeys(items)
    THEN items[CHOOSE i \in 1..Len(items) : items[i][1] = n][2]
    ELSE NoneV

NonNone(items) == \E i \in 1..Len(items) : items[i][2].k # "none"

\* The rule one level above the values: in the mapping f1, against f0, a
\* value of items is at the end of the list under its name, a None changed
\* nothing, and the names that are not in items kept their entries.
Merged0(f0, f1, items) ==
    /\ DOMAIN f1 = DOMAIN f0 \cup
                   {n \in ItemKeys(items) : ItemVal(items, n).k # "none"}
    /\ \A n \in DOMAIN f1 :
        LET v == ItemVal(items, n)
        IN IF v.k = "none" THEN f1[n] = f0[n]
           ELSE /\ v.k = "scalar"
                /\ Entry(f0, n).k \in {"absent", "list"}
                /\ f1[n] = LList(Append(Entry(f0, n).items, v.s))

\* The same rule, with mappings among the values merged by Merged0; a
\* mapping that holds nothing but None leaves a list as it is.
Merged1(f0, f1, items) ==
    /\ DOMAIN f1 = DOMAIN f0 \cup
                   {n \in ItemKeys(items) : ItemVal(items, n).k # "none"}
    /\ \A n \in DOMAIN f1 :
        LET v == ItemVal(items, n)
        IN CASE v.k = "none" -> f1[n] = f0[n]
             [] v.k = "scalar" ->
                    /\ Entry(f0, n).k \in {"absent", "list"}
                    /\ f1[n] = LList(Append(Entry(f0, n).items, v.s))
             [] v.k = "dict" /\ Entry(f0, n).k = "list" ->
                    /\ ~NonNone(v.d)
                    /\ f1[n] = f0[n]
             [] v.k = "dict" /\ Entry(f0, n).k # "list" ->
                    /\ f1[n].k = "dict" /\ f1[n].items = <<>>
                    /\ Merged0(Entry(f0, n).sub, f1[n].sub, v.d)

\* The same rule, with mappings among the values merged by Merged1.
Merged2(f0, f1, items) ==
    /\ DOMAIN f1 = DOMAIN f0 \cup
                   {n \in ItemKeys(items) : ItemVal(items, n).k # "none"}
    /\ \A n \in DOMAIN f1 :
        LET v == ItemVal(items, n)
        IN CASE v.k = "none" -> f1[n] = f0[n]
             [] v.k = "scalar" ->
                    /\ Entry(f0, n).k \in {"absent", "list"}
                    /\ f1[n] = LList(Append(Entry(f0, n).items, v.s))
             [] v.k = "dict" /\ Entry(f0, n).k = "list" ->
                    /\ ~NonNone(v.d)
                    /\ f1[n] = f0[n]
             [] v.k = "dict" /\ Entry(f0, n).k # "list" ->
                    /\ f1[n].k = "dict" /\ f1[n].items = <<>>
                    /\ Merged1(Entry(f0, n).sub, f1[n].sub, v.d)

\* A value of items does not fit the kind of the entry under its name: a
\* non-mapping for a nested mapping, or a mapping that holds something else
\* than None for a list; or it is a mapping with such a value inside.
Misfit0(f0, items) ==
    \E n \in ItemKeys(items) :
        ItemVal(items, n).k = "scalar" /\ Entry(f0, n).k = "dict"

Misfit1(f0, items) ==
    \E n \in ItemKeys(items) :
        LET v == ItemVal(items, n)
            e == Entry(f0, n)
        IN \/ v.k = "scalar" /\ e.k = "dict"
           \/ v.k = "dict" /\ e.k = "list" /\ NonNone(v.d)
           \/ v.k = "dict" /\ e.k # "list" /\ Misfit0(e.sub, v.d)

Misfit2(f0, items) ==
    \E n \in ItemKeys(items) :
        LET v == ItemVal(items, n)
            e == Entry(f0, n)
        IN \/ v.k = "scalar" /\ e.k = "dict"
           \/ v.k = "dict" /\ e.k = "list" /\ NonNone(v.d)
           \/ v.k = "dict" /\ e.k # "list" /\ Misfit1(e.sub, v.d)

\* C8 (as claimed): every call of _add_log appends a non-mapping value to
\* the list under the name, merges a mapping by the same rule into the
\* nested mapping under the name, and leaves the logs alone for None.
C8_Original ==
    [][/\ ~addLogRaised'
       /\ Merged2(logs, logs', <<addLogArg'>>)]_vars

\* C8 (amended): a call of _add_log whose value fits the kinds of the
\* entries it meets appends a non-mapping value at the end of the list
\* under the name (created on first use), merges a mapping key by key by
\* the same rule into the nested mapping under the name, and changes
\* nothing for None.  A call whose value does not fit (a non-mapping for a
\* name that holds a nested mapping; a mapping with a value other than None
\* for a name that holds a list) raises; then the other names keep their
\* entries and no entry changes its kind.
C8_AddLog ==
    [][/\ addLogRaised' <=> Misfit2(logs, <<addLogArg'>>)
       /\ ~addLogRaised' => Merged2(logs, logs', <<addLogArg'>>)
       /\ addLogRaised' =>
              /\ DOMAIN logs' = DOMAIN logs
              /\ \A n \in DOMAIN logs :
                     /\ logs'[n].k = logs[n].k
                     /\ n # addLogArg'[1] => logs'[n] = logs[n]
                     /\ logs[n].k = "list" => logs'[n] = logs[n]]_vars

\* Witness of C8: a mapping was merged into the nested mapping that an
\* earlier mapping had created under the same name, and a value was
\* appended to a list two levels down that already held one.
C8_Witness ==
    /\ addLogCalls >= 2
    /\ ~addLogRaised
    /\ addLogArg[2].k = "dict"
    /\ "u1" \in DOMAIN logs
    /\ logs["u1"].k = "dict"
    /\ "b" \in DOMAIN logs["u1"].sub
    /\ logs["u1"].sub["b"].k = "dict"
    /\ "a" \in DOMAIN logs["u1"].sub["b"].sub
    /\ logs["u1"].sub["b"].sub["a"] = LList(<<1, 1>>)
    /\ "a" \in DOMAIN logs["u1"].sub
    /\ logs["u1"].sub["a"] = LList(<<2, 1>>)

\* C9 (as claimed): setup raises the validation error and returns no
\* shapes for every requested size that is not a positive integer, and
\* returns the shapes for every positive integer size.
C9_Validated ==
    lstm.op = "setup" =>
        LET positiveInt == lstm.size.kind = "int" /\ lstm.size.v > 0
        IN /\ positiveInt => lstm.raised = "" /\ lstm.outputs # <<>>
           /\ ~positiveInt =>
                  /\ lstm.raised = "LayerValidationError"
                  /\ lstm.outputs = <<>>
                  /\ lstm.parameters = <<>>
                  /\ lstm.internals = <<>>

RECURSIVE SumUpTo(_, _)
\* f[0] + ... + f[k].
SumUpTo(f, k) == IF k < 0 THEN 0 ELSE f[k] + SumUpTo(f, k - 1)

\* C10 (as claimed): backward_pass adds to dWco the sum over t in 0..T-1 of
\* Ca[t]*dOa[t], to dWci the sum of Ca[t-1]*dIa[t] and to dWcf the sum of
\* Ca[t-1]*dFa[t], the term of t = 0 being taken with the context slot
\* Ca[-1] and the delta of step 0 of the matching gate.
C10_Peephole ==
    lstm.op = "backward" =>
        LET T == lstm.T
            prev(t) == IF t = 0 THEN T ELSE t - 1
        IN /\ lstm.dWco = lstm.g0
                + SumUpTo([t \in 0..(T - 1) |-> lstm.Ca[t] * lstm.dOa[t]],
                          T - 1)
           /\ lstm.dWci = lstm.g0
                + SumUpTo([t \in 0..(T - 1) |->
                              lstm.Ca[prev(t)] * lstm.dIa[t]], T - 1)
           /\ lstm.dWcf = lstm.g0
                + SumUpTo([t \in 0..(T - 1) |->
                              lstm.Ca[prev(t)] * lstm.dFa[t]], T - 1)

\* C12: in forward_pass over T time slots and one context slot, the step
\* t reads as y[t-1] and Ca[t-1] the slot t-1 when t >= 1 and the context
\* slot (slot T, index -1) when t = 0, never a slot outside 0..T; no step
\* writes the context slot of y or of Ca, so what step 0 reads there is what
\* the slot held before the pass, and a later step reads what the step
\* before it wrote.
C12_ContextReads ==
    lstm.op = "forward" =>
        LET T == lstm.T
        IN /\ Len(lstm.readY) = lstm.t /\ Len(lstm.readCa) = lstm.t
           /\ \A i \in 1..lstm.t :
                  /\ lstm.readY[i] = (IF i = 1 THEN T ELSE i - 2)
                  /\ lstm.readCa[i] = (IF i = 1 THEN T ELSE i - 2)
                  /\ lstm.readY[i] \in 0..T
                  /\ lstm.seenY[i] = lstm.y[lstm.readY[i]]
                  /\ lstm.seenCa[i] = lstm.Ca[lstm.readCa[i]]
           /\ lstm.wrote = 0..(lstm.t - 1)
           /\ T \notin lstm.wrote
           /\ lstm.y[T] = lstm.cy /\ lstm.Ca[T] = lstm.cc
           /\ lstm.t >= 1 =>
                  lstm.seenY[1] = lstm.cy /\ lstm.seenCa[1] = lstm.cc

\* Witness of C12: a pass over one time step has read the zero context
\* slots of y and Ca at step 0, while slot 0 held other data, and a pass
\* over two steps has read at step 1 the cell that step 0 wrote.
C12_Witness ==
    /\ lstm.op = "forward"
    /\ lstm.t = lstm.T
    /\ lstm.cy = 0 /\ lstm.cc = 0
    /\ lstm.readY[1] = lstm.T
    /\ lstm.seenCa[1] = 0
    /\ \/ lstm.T = 1 /\ lstm.Ca[0] = 1
       \/ lstm.T >= 2 /\ lstm.seenCa[2] = 1 /\ lstm.Ca[1] = 2

\* C13 (as claimed): with double buffering, from the moment the step for
\* the batch of index i begins until its body ends, the data last fed by
\* net.provide_external_data is batch i: the data the step began with is
\* that batch and nothing feeds another one during the step.
C13_StepData ==
    (double_buffering /\ pc = "in_step" /\ ~faulted) =>
        /\ stepData = gen_i + 1
        /\ netData = stepData

====
